---- MODULE Spec2Model ----
(***************************************************************************)
(* A model of graphs.py: the Vertex objects, the DiGraph container, the    *)
(* breadth-first traversals (bfs, recommend_friends_for_user), the         *)
(* recommendation builder (recommend_all_friends) and precision / recall.  *)
(*                                                                         *)
(* Vertex objects are modelled as heap objects <<name, instance>>: two     *)
(* objects with the same name are equal for Python (__eq__ / __hash__) but *)
(* are distinct objects, each with its own color, d and pi.                *)
(***************************************************************************)
EXTENDS Integers, FiniteSets, Sequences, TLC

\* ------------------------------------------------------------------ bounds
\* The vertex ids.
Names == {"A", "B", "C", "D"}
\* The ids the callers of add_vertex / add_edge use.
BuilderNames == {"A", "B", "C"}
\* The distinct Vertex objects a caller may hold for one id.
Instances == {1, 2}
\* How many add_vertex / add_edge calls a run of the graph builder makes.
MaxCalls == 3
\* The largest max_depth a caller passes.
MaxDepth == 2
\* The most edges a graph given to a traversal has.
MaxEdges == 3
\* The most edges a graph given to precision / recall has.
MaxEvalEdges == 2
MaxLoadEdges == 2

\* sys.maxsize, the "infinite" distance.  TLC's integers are 32 bits wide, so
\* the model uses the largest of them; no arithmetic is ever done on it.
maxsize == 2147483647

None == "None"

\* ----------------------------------------------------------------- Vertex
\* A Vertex object: its name and which of the caller's instances it is.
Vertex == Names \X Instances

name(v) == v[1]

\* Vertex.__eq__ on two Vertex objects: equality of the names only.
VertexEq(a, b) == name(a) = name(b)

\* ---------------------------------------------------------------- DiGraph
\* DiGraph.__init__: no keys, both counters 0.
DiGraph == [_edges |-> << >>, num_vertices |-> 0, num_edges |-> 0]

\* A get_vertex that hands back the caller's object instead of the key.
get_vertex_caller_object(g, vertex) == vertex

\* The key object of the dict self._edges that equals `vertex` (a dict keeps
\* the key object it was first given), None when there is none.
get_vertex(g, vertex) ==
    IF \E k \in DOMAIN g._edges : VertexEq(k, vertex)
    THEN CHOOSE k \in DOMAIN g._edges : VertexEq(k, vertex)
    ELSE None

\* vertex in self._edges
vertex_exists(g, vertex) == \E k \in DOMAIN g._edges : VertexEq(k, vertex)

\* self._edges[vertex]: the dict's lookup by hash and equality.
GetItem(g, vertex) == g._edges[CHOOSE k \in DOMAIN g._edges : VertexEq(k, vertex)]

\* set.add: a set keeps the element it holds when an equal one is added.
SetAdd(S, x) == IF \E y \in S : VertexEq(y, x) THEN S ELSE S \cup {x}

\* x in S for a Python set of Vertex objects.
SetIn(x, S) == \E y \in S : VertexEq(y, x)

\* An add_vertex without its existence check: self._edges[vertex] = set() on
\* a present key keeps the key object and replaces its set.
add_vertex_overwrites(g, vertex) ==
    IF ~vertex_exists(g, vertex)
    THEN [g EXCEPT !._edges = [k \in DOMAIN g._edges \cup {vertex} |->
                                  IF k = vertex THEN {} ELSE g._edges[k]],
                   !.num_vertices = g.num_vertices + 1]
    ELSE [g EXCEPT !._edges = [k \in DOMAIN g._edges |->
                                  IF VertexEq(k, vertex) THEN {} ELSE g._edges[k]]]

\* An add_vertex that counts every call.
add_vertex_counts_every_call(g, vertex) ==
    IF ~vertex_exists(g, vertex)
    THEN [g EXCEPT !._edges = [k \in DOMAIN g._edges \cup {vertex} |->
                                  IF k = vertex THEN {} ELSE g._edges[k]],
                   !.num_vertices = g.num_vertices + 1]
    ELSE [g EXCEPT !.num_vertices = g.num_vertices + 1]

add_vertex(g, vertex) ==
    IF ~vertex_exists(g, vertex)
    THEN [g EXCEPT !._edges = [k \in DOMAIN g._edges \cup {vertex} |->
                                  IF k = vertex THEN {} ELSE g._edges[k]],
                   !.num_vertices = g.num_vertices + 1]
    ELSE g

\* An add_edge that counts an edge only when it is new.
add_edge_counts_new_edges(g, v1, v2) ==
    LET g1 == IF ~vertex_exists(g, v1) THEN add_vertex(g, v1) ELSE g
        g2 == IF ~vertex_exists(g1, v2) THEN add_vertex(g1, v2) ELSE g1
        k1 == CHOOSE k \in DOMAIN g2._edges : VertexEq(k, v1)
    IN  [g2 EXCEPT !._edges[k1] = SetAdd(@, get_vertex(g2, v2)),
                   !.num_edges = IF SetIn(v2, g2._edges[k1])
                                 THEN g2.num_edges ELSE g2.num_edges + 1]

add_edge(g, v1, v2) ==
    LET g1 == IF ~vertex_exists(g, v1) THEN add_vertex(g, v1) ELSE g
        g2 == IF ~vertex_exists(g1, v2) THEN add_vertex(g1, v2) ELSE g1
        k1 == CHOOSE k \in DOMAIN g2._edges : VertexEq(k, v1)
    IN  [g2 EXCEPT !._edges[k1] = SetAdd(@, get_vertex(g2, v2)),
                   !.num_edges = g2.num_edges + 1]

count_vertices(g) == g.num_vertices

count_edges(g) == g.num_edges

edge_exists(g, vertex1, vertex2) ==
    IF ~vertex_exists(g, vertex1)
    THEN FALSE
    ELSE SetIn(vertex2, GetItem(g, vertex1))

\* The set of (vertex, edge_destination) tuples of Vertex objects.
edge_set(g) == {e \in (DOMAIN g._edges) \X Vertex : e[2] \in g._edges[e[1]]}

\* ------------------------------------------------------------------ state
VARIABLES
    G,          \* the graph the calls act on
    called,     \* the (v1, v2) arguments add_edge has been called with
    nAddEdge,   \* how many add_edge calls were made
    nCalls,     \* how many calls were made in all
    color,      \* Vertex.color of every Vertex object
    d,          \* Vertex.d of every Vertex object
    pi,         \* Vertex.pi of every Vertex object
    pc,         \* where the running function stands
    fn,         \* the traversal that runs or ran last
    s,          \* its source vertex
    max_depth,  \* its depth limit (recommend_friends_for_user)
    Q,          \* its deque
    u,          \* the vertex popped last
    todo,       \* the members of G._edges[u] the for loop has not reached yet
    vertices_encountered,  \* the list recommend_friends_for_user builds
    caller,     \* who called the traversal: "top" or "recommend_all_friends"
    friend_graph,   \* recommend_all_friends: the graph it builds
    users,      \* the keys of G its outer for loop has not reached yet
    user,       \* the u of its outer for loop
    targets,    \* what is left of the list its inner for loop walks
    metric,     \* the call of precision / recall made last, and what it returned
    G2,         \* load_data: the second graph it returns (G is the first)
    enqueued,   \* history: the vertices the running traversal appended to Q, in order
    earlier     \* history: a traversal had run before the running one was called

\* gvars: the graph, the builder's history and the metric, which no traversal
\* touches; hvars: the Vertex fields; tvars: a traversal's locals; avars:
\* recommend_all_friends' locals.
gvars == <<G, called, nAddEdge, nCalls, metric, G2>>
hvars == <<color, d, pi>>
tvars == <<pc, fn, s, max_depth, Q, u, todo, vertices_encountered, caller,
           enqueued, earlier>>
avars == <<friend_graph, users, user, targets>>
vars == <<gvars, hvars, tvars, avars>>

\* Vertex.__init__: the fields of an object no traversal has touched.
InitHeap ==
    /\ color = [v \in Vertex |-> "WHITE"]
    /\ d = [v \in Vertex |-> maxsize]
    /\ pi = [v \in Vertex |-> None]

\* No traversal has been called.
InitFrame ==
    /\ pc = "idle"
    /\ fn = None
    /\ s = None
    /\ max_depth = 0
    /\ Q = << >>
    /\ u = None
    /\ todo = {}
    /\ vertices_encountered = << >>
    /\ caller = "top"
    /\ friend_graph = DiGraph
    /\ users = << >>
    /\ user = None
    /\ targets = << >>
    /\ metric = [fn |-> None, value |-> None]
    /\ enqueued = << >>
    /\ earlier = FALSE

\* ------------------------------------------------- the graph builder's runs
InitGraph ==
    /\ G = DiGraph
    /\ called = {}
    /\ nAddEdge = 0
    /\ nCalls = 0
    /\ InitHeap
    /\ InitFrame
    /\ G2 = DiGraph

\* The objects the callers of add_vertex / add_edge pass.
BuilderVertex == {v \in Vertex : name(v) \in BuilderNames}

CallAddVertex ==
    \E v \in BuilderVertex :
        /\ nCalls < MaxCalls
        /\ G' = add_vertex(G, v)
        /\ nCalls' = nCalls + 1
        /\ UNCHANGED <<called, nAddEdge, hvars, tvars, avars, metric, G2>>

CallAddEdge ==
    \E v1 \in BuilderVertex, v2 \in BuilderVertex :
        /\ nCalls < MaxCalls
        /\ G' = add_edge(G, v1, v2)
        /\ called' = called \cup {<<v1, v2>>}
        /\ nAddEdge' = nAddEdge + 1
        /\ nCalls' = nCalls + 1
        /\ UNCHANGED <<hvars, tvars, avars, metric, G2>>

NextGraph == CallAddVertex \/ CallAddEdge

SpecGraph == InitGraph /\ [][NextGraph]_vars

\* C6: once add_edge(u, v) has been called, edge_exists(u, v) is true, for
\* the objects passed and for every object equal to them, and stays true
\* after any further add_vertex / add_edge calls.
C6_EdgeExistsAfterAddEdge ==
    \A e \in called : \A a, b \in Vertex :
        (VertexEq(a, e[1]) /\ VertexEq(b, e[2])) => edge_exists(G, a, b)

\* Three add_edge calls with three different argument pairs: the first of
\* them was followed by two further calls.
C6_Witness ==
    /\ Cardinality(called) = 3
    /\ \E e \in called : ~VertexEq(e[1], e[2])

\* C7: count_vertices() is the number of distinct ids among the keys, and
\* add_vertex on an id already present changes nothing.
C7_VertexCount ==
    /\ count_vertices(G) = Cardinality({name(k) : k \in DOMAIN G._edges})
    /\ Cardinality(DOMAIN G._edges) = Cardinality({name(k) : k \in DOMAIN G._edges})
    /\ \A v \in Vertex : vertex_exists(G, v) => add_vertex(G, v) = G

\* Two add_vertex calls on one id: the second found it present.
C7_Witness ==
    /\ nAddEdge = 0
    /\ nCalls = 2
    /\ count_vertices(G) = 1

\* C8: count_edges() equals the cardinality of edge_set().
C8_EdgeCountIsCardinality == count_edges(G) = Cardinality(edge_set(G))

\* C9: every member of an outgoing set is a key object of the graph itself
\* (so it is a key, and it is the graph's own instance for its id).
C9_MembersAreKeys ==
    \A k \in DOMAIN G._edges : \A m \in G._edges[k] : m \in DOMAIN G._edges

\* add_edge was called with a destination object that is not the graph's key
\* for that id, and the edge is there.
C9_Witness ==
    \E e \in called :
        /\ e[2] \notin DOMAIN G._edges
        /\ edge_exists(G, e[1], e[2])


\* ------------------------------------------------------------ the traversals
\* The graphs a traversal is given: every graph of at most MaxEdges edges
\* that add_vertex / add_edge can build over the ids (self-loops and cycles
\* included), each id's Vertex object being the caller's first one, each
\* edge added once.
Keys == {v \in Vertex : v[2] = 1}

EdgesOf(K, E) == {e \in K \X K : e[2] \in E[e[1]]}

Graphs ==
    UNION {{[_edges |-> E, num_vertices |-> Cardinality(K),
             num_edges |-> Cardinality(EdgesOf(K, E))]
               : E \in {F \in [K -> SUBSET K] : Cardinality(EdgesOf(K, F)) <= MaxEdges}}
           : K \in SUBSET Keys}

InitGiven ==
    /\ G \in Graphs
    /\ called = {}
    /\ nAddEdge = G.num_edges
    /\ nCalls = 0
    /\ InitHeap
    /\ InitFrame
    /\ G2 = DiGraph

\* The colour the source gets before the loop starts.
source_color_white == "WHITE"

source_color == "GRAY"

\* A discovered vertex that is left "WHITE".
discovered_color_white == "WHITE"

\* vertex.color = "GRAY"
discovered_color == "GRAY"

\* vertex.d = u.d without the + 1.
discover_d_same_layer(ud) == ud

\* vertex.d = u.d + 1
discover_d(ud) == ud + 1

\* vertex.d < max_depth
within_depth_strict(dv, k) == dv < k

\* vertex.d <= max_depth
\* A depth test that lets one more layer through.
within_depth_plus_one(dv, k) == dv <= k + 1

within_depth(dv, k) == dv <= k

\* The for loop over G._edges that resets every key but those equal to s,
\* and the three assignments to s that follow it.
reset_color(g, sv, col) ==
    [v \in Vertex |-> IF v = sv THEN source_color
                      ELSE IF v \in DOMAIN g._edges /\ ~VertexEq(v, sv) THEN "WHITE"
                      ELSE col[v]]

\* A reset whose loop leaves vertex.d as it is.
reset_d_keeps_d(g, sv, dd) == [v \in Vertex |-> IF v = sv THEN 0 ELSE dd[v]]

reset_d(g, sv, dd) ==
    [v \in Vertex |-> IF v = sv THEN 0
                      ELSE IF v \in DOMAIN g._edges /\ ~VertexEq(v, sv) THEN maxsize
                      ELSE dd[v]]

reset_pi(g, sv, pp) ==
    [v \in Vertex |-> IF v = sv THEN None
                      ELSE IF v \in DOMAIN g._edges /\ ~VertexEq(v, sv) THEN None
                      ELSE pp[v]]

\* bfs, up to its while loop.
bfs_entry(sv) ==
    /\ color' = reset_color(G, sv, color)
    /\ d' = reset_d(G, sv, d)
    /\ pi' = reset_pi(G, sv, pi)
    /\ Q' = <<sv>>
    /\ enqueued' = <<sv>>
    /\ earlier' = (fn # None)
    /\ fn' = "bfs"
    /\ s' = sv
    /\ pc' = "while"
    \* a call's locals are its own: nothing is left of an earlier call's
    /\ u' = None
    /\ todo' = {}
    /\ vertices_encountered' = << >>
    /\ max_depth' = 0

bfs_call ==
    /\ pc = "idle"
    /\ \E sv \in DOMAIN G._edges : bfs_entry(sv)
    /\ caller' = "top"
    /\ UNCHANGED <<gvars, avars>>

\* while Q: u = Q.popleft(), and the for loop over G._edges[u] starts.
bfs_popleft ==
    /\ pc = "while"
    /\ fn = "bfs"
    /\ Q # << >>
    /\ u' = Head(Q)
    /\ Q' = Tail(Q)
    /\ todo' = GetItem(G, Head(Q))
    /\ pc' = "for"
    /\ UNCHANGED <<gvars, hvars, avars, fn, s, max_depth, vertices_encountered, caller,
                   enqueued, earlier>>

\* One pass of the for loop; a set is walked in no particular order.
bfs_visit ==
    /\ pc = "for"
    /\ fn = "bfs"
    /\ \E vertex \in todo :
        /\ todo' = todo \ {vertex}
        /\ IF color[vertex] = "WHITE"
           THEN /\ color' = [color EXCEPT ![vertex] = discovered_color]
                /\ d' = [d EXCEPT ![vertex] = discover_d(d[u])]
                /\ pi' = [pi EXCEPT ![vertex] = u]
                /\ Q' = Append(Q, vertex)
                /\ enqueued' = Append(enqueued, vertex)
           ELSE UNCHANGED <<hvars, Q, enqueued>>
    /\ UNCHANGED <<gvars, avars, pc, fn, s, max_depth, u, vertices_encountered, caller,
                   earlier>>

\* The for loop is over: u.color = "BLACK".
bfs_blacken ==
    /\ pc = "for"
    /\ fn = "bfs"
    /\ todo = {}
    /\ color' = [color EXCEPT ![u] = "BLACK"]
    /\ pc' = "while"
    /\ UNCHANGED <<gvars, avars, d, pi, fn, s, max_depth, Q, u, todo,
                   vertices_encountered, caller, enqueued, earlier>>

\* The queue is empty: bfs returns.
bfs_return ==
    /\ pc = "while"
    /\ fn = "bfs"
    /\ Q = << >>
    /\ pc' = "idle"
    /\ UNCHANGED <<gvars, hvars, avars, fn, s, max_depth, Q, u, todo,
                   vertices_encountered, caller, enqueued, earlier>>

\* A list that takes its new element at the front.
list_insert_front(l, x) == <<x>> \o l

\* list.append
list_append(l, x) == Append(l, x)

\* recommend_friends_for_user, up to its while loop.
recommend_friends_for_user_entry(sv, k) ==
    /\ vertices_encountered' = << >>
    /\ color' = reset_color(G, sv, color)
    /\ d' = reset_d(G, sv, d)
    /\ pi' = reset_pi(G, sv, pi)
    /\ Q' = <<sv>>
    /\ enqueued' = <<sv>>
    /\ earlier' = (fn # None)
    /\ fn' = "recommend_friends_for_user"
    /\ s' = sv
    /\ max_depth' = k
    /\ pc' = "while"
    \* a call's locals are its own: nothing is left of an earlier call's
    /\ u' = None
    /\ todo' = {}

recommend_friends_for_user_call ==
    /\ pc = "idle"
    /\ \E sv \in DOMAIN G._edges, k \in 0..MaxDepth :
           recommend_friends_for_user_entry(sv, k)
    /\ caller' = "top"
    /\ UNCHANGED <<gvars, avars>>

recommend_friends_for_user_popleft ==
    /\ pc = "while"
    /\ fn = "recommend_friends_for_user"
    /\ Q # << >>
    /\ u' = Head(Q)
    /\ Q' = Tail(Q)
    /\ todo' = GetItem(G, Head(Q))
    /\ pc' = "for"
    /\ UNCHANGED <<gvars, hvars, avars, fn, s, max_depth, vertices_encountered, caller,
                   enqueued, earlier>>

recommend_friends_for_user_visit ==
    /\ pc = "for"
    /\ fn = "recommend_friends_for_user"
    /\ \E vertex \in todo :
        /\ todo' = todo \ {vertex}
        /\ IF color[vertex] = "WHITE"
           THEN /\ color' = [color EXCEPT ![vertex] = discovered_color]
                /\ d' = [d EXCEPT ![vertex] = discover_d(d[u])]
                /\ pi' = [pi EXCEPT ![vertex] = u]
                /\ IF within_depth(discover_d(d[u]), max_depth)
                   THEN /\ Q' = Append(Q, vertex)
                        /\ enqueued' = Append(enqueued, vertex)
                        /\ vertices_encountered' = list_append(vertices_encountered, vertex)
                   ELSE UNCHANGED <<Q, vertices_encountered, enqueued>>
           ELSE UNCHANGED <<hvars, Q, vertices_encountered, enqueued>>
    /\ UNCHANGED <<gvars, avars, pc, fn, s, max_depth, u, caller, earlier>>

recommend_friends_for_user_blacken ==
    /\ pc = "for"
    /\ fn = "recommend_friends_for_user"
    /\ todo = {}
    /\ color' = [color EXCEPT ![u] = "BLACK"]
    /\ pc' = "while"
    /\ UNCHANGED <<gvars, avars, d, pi, fn, s, max_depth, Q, u, todo,
                   vertices_encountered, caller, enqueued, earlier>>

\* return vertices_encountered, to the top level.
recommend_friends_for_user_return ==
    /\ pc = "while"
    /\ fn = "recommend_friends_for_user"
    /\ caller = "top"
    /\ Q = << >>
    /\ pc' = "idle"
    /\ UNCHANGED <<gvars, hvars, avars, fn, s, max_depth, Q, u, todo,
                   vertices_encountered, caller, enqueued, earlier>>

NextTraverse ==
    \/ bfs_call
    \/ bfs_popleft
    \/ bfs_visit
    \/ bfs_blacken
    \/ bfs_return
    \/ recommend_friends_for_user_call
    \/ recommend_friends_for_user_popleft
    \/ recommend_friends_for_user_visit
    \/ recommend_friends_for_user_blacken
    \/ recommend_friends_for_user_return

\* Any sequence of bfs and recommend_friends_for_user calls on a given graph.
SpecTraverse == InitGiven /\ [][NextTraverse]_vars

\* What a called traversal does until it returns.
TraversalStep ==
    \/ bfs_popleft
    \/ bfs_visit
    \/ bfs_blacken
    \/ bfs_return
    \/ recommend_friends_for_user_popleft
    \/ recommend_friends_for_user_visit
    \/ recommend_friends_for_user_blacken
    \/ recommend_friends_for_user_return

\* The same, the interpreter running a called function on: the program is
\* single-threaded and nothing in a traversal waits.
SpecTraverseFair == SpecTraverse /\ WF_vars(TraversalStep)


\* ---------------------------------------------------- recommend_all_friends
\* friend_graph.add_edge(u, v) without the add_edge(v, u) that follows it.
recommend_pair_one_way(fg, uu, v) == add_edge(fg, uu, v)

\* friend_graph.add_edge(u, v); friend_graph.add_edge(v, u)
recommend_pair(fg, uu, v) == add_edge(add_edge(fg, uu, v), v, uu)

\* A test of the edge u -> v where the code tests v -> u.
already_friends_forward(g, uu, v) == edge_exists(g, uu, v)

\* A test that never finds the two connected.
already_friends_never(g, uu, v) == FALSE

\* G.edge_exists(v, u), the test that keeps a pair out of friend_graph.
already_friends(g, uu, v) == edge_exists(g, v, uu)

\* The keys of a given graph in the order `for u in G._edges` walks them: the
\* order they were inserted in, which for the graphs given is the order of
\* their ids.  (Graphs is closed under renaming the ids, so every other
\* insertion order of a graph is this order of a renamed graph.)
IdOrder == <<"A", "B", "C", "D">>

HasId(g, n) == \E k \in DOMAIN g._edges : name(k) = n

RECURSIVE KeysFrom(_, _)
KeysFrom(g, i) ==
    IF i > Len(IdOrder) THEN << >>
    ELSE IF HasId(g, IdOrder[i])
         THEN <<CHOOSE k \in DOMAIN g._edges : name(k) = IdOrder[i]>> \o KeysFrom(g, i + 1)
         ELSE KeysFrom(g, i + 1)

dict_keys(g) == KeysFrom(g, 1)

\* friend_graph = DiGraph(), and the for loop over G._edges starts.
recommend_all_friends_call ==
    /\ pc = "idle"
    /\ \E k \in 0..MaxDepth : max_depth' = k
    /\ friend_graph' = DiGraph
    /\ users' = dict_keys(G)
    /\ user' = None
    /\ targets' = << >>
    /\ pc' = "users"
    /\ caller' = "recommend_all_friends"
    /\ UNCHANGED <<gvars, hvars, fn, s, Q, u, todo, vertices_encountered, enqueued, earlier>>

\* The next u of the for loop, and the call recommend_friends_for_user(G, u,
\* max_depth).
recommend_all_friends_next_user ==
    /\ pc = "users"
    /\ users # << >>
    /\ users' = Tail(users)
    /\ user' = Head(users)
    /\ recommend_friends_for_user_entry(Head(users), max_depth)
    /\ UNCHANGED <<gvars, friend_graph, targets, caller>>

\* recommend_friends_for_user returns its list into targets.
recommend_all_friends_targets ==
    /\ pc = "while"
    /\ fn = "recommend_friends_for_user"
    /\ caller = "recommend_all_friends"
    /\ Q = << >>
    /\ targets' = vertices_encountered
    /\ pc' = "targets"
    /\ UNCHANGED <<gvars, hvars, fn, s, max_depth, Q, u, todo, vertices_encountered,
                   caller, enqueued, earlier, friend_graph, users, user>>

\* One pass of the for loop over targets.
recommend_all_friends_target ==
    /\ pc = "targets"
    /\ targets # << >>
    /\ friend_graph' = IF ~already_friends(G, user, Head(targets))
                       THEN recommend_pair(friend_graph, user, Head(targets))
                       ELSE friend_graph
    /\ targets' = Tail(targets)
    /\ UNCHANGED <<gvars, hvars, tvars, users, user>>

\* The list is walked: back to the for loop over G._edges.
recommend_all_friends_targets_done ==
    /\ pc = "targets"
    /\ targets = << >>
    /\ pc' = "users"
    /\ UNCHANGED <<gvars, hvars, avars, fn, s, max_depth, Q, u, todo,
                   vertices_encountered, caller, enqueued, earlier>>

\* return friend_graph
recommend_all_friends_return ==
    /\ pc = "users"
    /\ users = << >>
    /\ pc' = "done"
    /\ UNCHANGED <<gvars, hvars, avars, fn, s, max_depth, Q, u, todo,
                   vertices_encountered, caller, enqueued, earlier>>

NextAll ==
    \/ recommend_all_friends_call
    \/ recommend_all_friends_next_user
    \/ recommend_friends_for_user_popleft
    \/ recommend_friends_for_user_visit
    \/ recommend_friends_for_user_blacken
    \/ recommend_all_friends_targets
    \/ recommend_all_friends_target
    \/ recommend_all_friends_targets_done
    \/ recommend_all_friends_return

\* recommend_all_friends on a given graph, with the traversals it calls.
SpecAll == InitGiven /\ [][NextAll]_vars

\* The orders a dict with the keys of seq can have been filled in.
Orders(seq) ==
    {p \in [1..Len(seq) -> {seq[i] : i \in 1..Len(seq)}] :
        \A i, j \in 1..Len(seq) : i # j => p[i] # p[j]}

\* recommend_all_friends called on a graph whose keys were inserted in any
\* order.
recommend_all_friends_call_any_order ==
    /\ pc = "idle"
    /\ \E k \in 0..MaxDepth : max_depth' = k
    /\ friend_graph' = DiGraph
    /\ \E p \in Orders(dict_keys(G)) : users' = p
    /\ user' = None
    /\ targets' = << >>
    /\ pc' = "users"
    /\ caller' = "recommend_all_friends"
    /\ UNCHANGED <<gvars, hvars, fn, s, Q, u, todo, vertices_encountered, enqueued, earlier>>

NextAllAnyOrder ==
    \/ recommend_all_friends_call_any_order
    \/ recommend_all_friends_next_user
    \/ recommend_friends_for_user_popleft
    \/ recommend_friends_for_user_visit
    \/ recommend_friends_for_user_blacken
    \/ recommend_all_friends_targets
    \/ recommend_all_friends_target
    \/ recommend_all_friends_targets_done
    \/ recommend_all_friends_return

\* recommend_all_friends on a given graph, the keys walked in any order and
\* every neighbour set iterated in any order.
SpecAllAnyOrder == InitGiven /\ [][NextAllAnyOrder]_vars


\* ---------------------------------------------------------------- load_data
\* The graph the records of E build, one add_edge per record, every id with
\* the Vertex object the dict `vertices` holds for it.
RECURSIVE LoadGraph(_, _)
LoadGraph(E, vertices) ==
    IF E = {} THEN DiGraph
    ELSE LET e == CHOOSE x \in E : TRUE
         IN  add_edge(LoadGraph(E \ {e}, vertices), vertices[e[1]], vertices[e[2]])

\* load_data: one dict `vertices` for both files, filled with a new Vertex
\* for an id not yet in it, so an id has one Vertex object in both graphs.
load_data(training, testing) ==
    LET vertices == [n \in Names |-> <<n, 1>>]
    IN  <<LoadGraph(training, vertices), LoadGraph(testing, vertices)>>

\* The records of a file: at most MaxLoadEdges pairs of ids.
LoadLists == {E \in SUBSET (BuilderNames \X BuilderNames) : Cardinality(E) <= MaxLoadEdges}

\* G1, G2 = load_data(training_flname, testing_flname); G is G1.
InitLoad ==
    /\ \E training, testing \in LoadLists :
          /\ G = load_data(training, testing)[1]
          /\ G2 = load_data(training, testing)[2]
    /\ called = {}
    /\ nAddEdge = G.num_edges
    /\ nCalls = 0
    /\ InitHeap
    /\ InitFrame

\* The two graphs of load_data, and any sequence of bfs and
\* recommend_friends_for_user calls on the training graph.
SpecLoad == InitLoad /\ [][NextTraverse]_vars


\* ------------------------------------------------------ precision / recall
\* A float that is the quotient of two small integers, as the reduced
\* fraction <<numerator, denominator>>; 0.0 is <<0, 1>> and 1.0 is <<1, 1>>.
RECURSIVE Gcd(_, _)
Gcd(a, b) == IF b = 0 THEN a ELSE Gcd(b, a % b)

Float(n, m) == <<n \div Gcd(n, m), m \div Gcd(n, m)>>

Zero == <<0, 1>>

\* float(n) / m
truediv(n, m) == IF m = 0 THEN "ZeroDivisionError" ELSE Float(n, m)

\* An intersection that takes two tuples for equal only when they hold the
\* same Vertex objects.
intersection_by_identity(a, b) == a \cap b

\* a.intersection(b) for two sets of (Vertex, Vertex) tuples: tuples are
\* equal when their components are.
intersection(a, b) ==
    {e \in a : \E f \in b : VertexEq(e[1], f[1]) /\ VertexEq(e[2], f[2])}

\* precision without the test of len(rec_edges).
precision_unguarded(recommendations, testing_set) ==
    LET rec_edges == edge_set(recommendations)
        test_edges == edge_set(testing_set)
    IN  truediv(Cardinality(intersection(rec_edges, test_edges)), Cardinality(rec_edges))

precision(recommendations, testing_set) ==
    LET rec_edges == edge_set(recommendations)
        test_edges == edge_set(testing_set)
    IN  IF Cardinality(rec_edges) = 0
        THEN Zero
        ELSE truediv(Cardinality(intersection(rec_edges, test_edges)),
                     Cardinality(rec_edges))

recall(recommendations, testing_set) ==
    LET rec_edges == edge_set(recommendations)
        test_edges == edge_set(testing_set)
    IN  IF Cardinality(test_edges) = 0
        THEN Zero
        ELSE truediv(Cardinality(intersection(rec_edges, test_edges)),
                     Cardinality(test_edges))

\* The graph an edge list builds, one add_edge per record, with the caller's
\* inst-th Vertex object for every id.
RECURSIVE FromEdgeList(_, _)
FromEdgeList(E, inst) ==
    IF E = {} THEN DiGraph
    ELSE LET e == CHOOSE x \in E : TRUE
         IN  add_edge(FromEdgeList(E \ {e}, inst), <<e[1], inst>>, <<e[2], inst>>)

EdgeLists == {E \in SUBSET (BuilderNames \X BuilderNames) : Cardinality(E) <= MaxEvalEdges}

\* precision and recall are given two graphs: the recommendations are in
\* friend_graph, the testing set is in G; their Vertex objects may be the
\* same objects or equal ones.
InitEval ==
    /\ \E E \in EdgeLists : G = FromEdgeList(E, 1)
    /\ \E E \in EdgeLists, inst \in Instances : friend_graph = FromEdgeList(E, inst)
    /\ called = {}
    /\ nAddEdge = G.num_edges
    /\ nCalls = 0
    /\ InitHeap
    /\ pc = "idle"
    /\ fn = None
    /\ s = None
    /\ max_depth = 0
    /\ Q = << >>
    /\ u = None
    /\ todo = {}
    /\ vertices_encountered = << >>
    /\ caller = "top"
    /\ users = << >>
    /\ user = None
    /\ targets = << >>
    /\ metric = [fn |-> None, value |-> None]
    /\ G2 = DiGraph
    /\ enqueued = << >>
    /\ earlier = FALSE

precision_call ==
    /\ metric' = [fn |-> "precision", value |-> precision(friend_graph, G)]
    /\ UNCHANGED <<G, called, nAddEdge, nCalls, G2, hvars, tvars, avars>>

recall_call ==
    /\ metric' = [fn |-> "recall", value |-> recall(friend_graph, G)]
    /\ UNCHANGED <<G, called, nAddEdge, nCalls, G2, hvars, tvars, avars>>

NextEval == precision_call \/ recall_call

SpecEval == InitEval /\ [][NextEval]_vars

\* --------------------------------------------------- the calls of a session
\* An edge_exists that stores an absent vertex1 as a key, as a subscript of a
\* defaultdict would.
after_edge_exists_inserting(g, vertex1, vertex2) ==
    IF vertex_exists(g, vertex1) THEN g ELSE add_vertex(g, vertex1)

\* The graph after g.edge_exists(vertex1, vertex2): vertex_exists tests
\* membership and the subscript reads a plain dict; nothing is stored.
after_edge_exists(g, vertex1, vertex2) == g

\* G.edge_exists(vertex1, vertex2), called on what recommend_all_friends was
\* given; value holds the arguments and the result.
edge_exists_call ==
    /\ pc = "done"
    /\ \E vertex1, vertex2 \in Keys :
          /\ metric' = [fn |-> "edge_exists",
                        value |-> <<vertex1, vertex2, edge_exists(G, vertex1, vertex2)>>]
          /\ G' = after_edge_exists(G, vertex1, vertex2)
    /\ UNCHANGED <<called, nAddEdge, nCalls, G2, hvars, tvars, avars>>

\* G.edge_set(): a new set is filled, self is only read.
edge_set_call ==
    /\ pc = "done"
    /\ metric' = [fn |-> "edge_set", value |-> edge_set(G)]
    /\ UNCHANGED <<G, called, nAddEdge, nCalls, G2, hvars, tvars, avars>>

\* precision(friend_graph, G) and recall(friend_graph, G) on the graph
\* recommend_all_friends returned.
precision_of_recommendations == pc = "done" /\ precision_call

recall_of_recommendations == pc = "done" /\ recall_call

NextSession ==
    \/ bfs_call
    \/ bfs_popleft
    \/ bfs_visit
    \/ bfs_blacken
    \/ bfs_return
    \/ recommend_friends_for_user_call
    \/ recommend_friends_for_user_popleft
    \/ recommend_friends_for_user_visit
    \/ recommend_friends_for_user_blacken
    \/ recommend_friends_for_user_return
    \/ recommend_all_friends_call
    \/ recommend_all_friends_next_user
    \/ recommend_all_friends_targets
    \/ recommend_all_friends_target
    \/ recommend_all_friends_targets_done
    \/ recommend_all_friends_return
    \/ precision_of_recommendations
    \/ recall_of_recommendations
    \/ edge_set_call
    \/ edge_exists_call

\* A session on a given graph: traversals, then recommend_all_friends, then
\* the evaluation and the queries of the graphs.
SpecSession == InitGiven /\ [][NextSession]_vars

\* ------------------------------------------- what the properties speak of
\* The vertices at most n hops from sv, and the shortest hop count from sv
\* to v (maxsize when there is no path): defined from the edges alone, not
\* from what a traversal computes.
RECURSIVE Ball(_, _, _)
Ball(g, sv, n) ==
    IF n = 0 THEN {sv}
    ELSE LET B == Ball(g, sv, n - 1)
         IN  B \cup UNION {g._edges[b] : b \in B}

Dist(g, sv, v) ==
    LET N == Cardinality(DOMAIN g._edges)
    IN  IF v \in Ball(g, sv, N)
        THEN CHOOSE n \in 0..N :
                 /\ v \in Ball(g, sv, n)
                 /\ \A m \in 0..(n - 1) : v \notin Ball(g, sv, m)
        ELSE maxsize

Elements(seq) == {seq[i] : i \in 1..Len(seq)}

\* A top-level call of the named traversal has returned.
Returned(f) == pc = "idle" /\ fn = f

\* C1: the list recommend_friends_for_user(G, s, k) returns holds exactly the
\* vertices v with 1 <= dist(s, v) <= k, each once, and not s.
C1_RecommendExactlyWithinDepth ==
    Returned("recommend_friends_for_user") =>
        /\ Elements(vertices_encountered) =
               {v \in DOMAIN G._edges :
                    1 <= Dist(G, s, v) /\ Dist(G, s, v) <= max_depth}
        /\ \A i, j \in 1..Len(vertices_encountered) :
               i # j => ~VertexEq(vertices_encountered[i], vertices_encountered[j])
        /\ \A i \in 1..Len(vertices_encountered) : ~VertexEq(vertices_encountered[i], s)

\* The path A -> B -> C -> D from A with max_depth 2: two vertices
\* are returned and a third, reachable one lies beyond the depth.
C1_Witness ==
    /\ Returned("recommend_friends_for_user")
    /\ max_depth = 2
    /\ Len(vertices_encountered) = 2
    /\ \E v \in DOMAIN G._edges : Dist(G, s, v) = 3

\* C2: after bfs(G, s), s.d = 0, every reachable vertex has its shortest hop
\* count as d, every unreachable one has d = sys.maxsize.
C2_BfsDistances ==
    Returned("bfs") =>
        /\ d[s] = 0
        /\ \A v \in DOMAIN G._edges :
               /\ Dist(G, s, v) # maxsize => d[v] = Dist(G, s, v)
               /\ Dist(G, s, v) = maxsize => d[v] = maxsize

\* bfs has returned on a graph with a vertex two hops away and a vertex that
\* cannot be reached.
C2_Witness ==
    /\ Returned("bfs")
    /\ \E v, w \in DOMAIN G._edges :
           /\ Dist(G, s, v) = 2
           /\ d[v] = 2
           /\ Dist(G, s, w) = maxsize
           /\ d[w] = maxsize

\* recommend_all_friends has returned friend_graph.
AllReturned == pc = "done"

\* C3: the graph recommend_all_friends returns is symmetric.
C3_RecommendationsSymmetric ==
    AllReturned =>
        \A e \in edge_set(friend_graph) : edge_exists(friend_graph, e[2], e[1])

\* A graph was returned that holds a recommendation.
C3_Witness ==
    /\ AllReturned
    /\ edge_set(friend_graph) # {}
    /\ max_depth = 2

\* C4: for every edge (u, v) of the graph recommend_all_friends returns,
\* (v, u) is not an edge of G.
C4_NoReverseOfExistingEdge ==
    AllReturned =>
        \A e \in edge_set(friend_graph) : ~edge_exists(G, e[2], e[1])

\* C5: the source is never in the list recommend_friends_for_user builds,
\* and the graph recommend_all_friends builds holds no edge (u, u).
C5_NeverRecommendedToItself ==
    /\ fn = "recommend_friends_for_user" =>
           \A i \in 1..Len(vertices_encountered) : ~VertexEq(vertices_encountered[i], s)
    /\ \A e \in edge_set(friend_graph) : ~VertexEq(e[1], e[2])

\* recommend_all_friends has returned: a vertex with a self-loop in G got
\* recommendations, none of them itself.
C5_Witness ==
    /\ AllReturned
    /\ \E a \in DOMAIN G._edges :
           /\ a \in G._edges[a]
           /\ \E e \in edge_set(friend_graph) : e[1] = a


\* C10: precision and recall never fail; precision is 0.0 when the
\* recommendations have no edge, recall is 0.0 when the testing set has none.
C10_ZeroInsteadOfDivisionByZero ==
    /\ metric.value # "ZeroDivisionError"
    /\ (metric.fn = "precision" /\ edge_set(friend_graph) = {}) => metric.value = Zero
    /\ (metric.fn = "recall" /\ edge_set(G) = {}) => metric.value = Zero
    /\ \A f \in {"precision", "recall"} :
           (metric.fn = f /\ edge_set(friend_graph) = {} /\ edge_set(G) = {})
               => metric.value = Zero

\* precision was called with recommendations that have no edge and a testing
\* set that has some.
C10_Witness ==
    /\ metric.fn = "precision"
    /\ edge_set(friend_graph) = {}
    /\ edge_set(G) # {}


\* The edges of a graph as ordered pairs of vertex ids.
IdPairs(g) == {<<name(e[1]), name(e[2])>> : e \in edge_set(g)}

\* value is the float num / den.
IsQuotient(value, num, den) ==
    /\ value # "ZeroDivisionError"
    /\ value[2] > 0
    /\ value[1] * den = value[2] * num

\* C11: for graphs with edges, precision is |R & T| / |R| and recall is
\* |R & T| / |T|, the edges compared as pairs of ids; both are 1 when the
\* edge sets are equal.
C11_PrecisionRecallQuotients ==
    LET R == IdPairs(friend_graph)
        T == IdPairs(G)
    IN  (R # {} /\ T # {}) =>
            /\ metric.fn = "precision" =>
                   IsQuotient(metric.value, Cardinality(R \cap T), Cardinality(R))
            /\ metric.fn = "recall" =>
                   IsQuotient(metric.value, Cardinality(R \cap T), Cardinality(T))
            /\ (metric.fn \in {"precision", "recall"} /\ R = T) => metric.value = <<1, 1>>

\* R = {A -> C, C -> A} and T = {A -> C}, of equal but distinct Vertex
\* objects: precision has returned 1/2.
C11_Witness ==
    /\ IdPairs(friend_graph) = {<<"A", "C">>, <<"C", "A">>}
    /\ IdPairs(G) = {<<"A", "C">>}
    /\ DOMAIN friend_graph._edges # DOMAIN G._edges
    /\ metric = [fn |-> "precision", value |-> <<1, 2>>]

EnqueuedOnce ==
    \A i, j \in 1..Len(enqueued) : i # j => ~VertexEq(enqueued[i], enqueued[j])

\* C12: bfs and recommend_friends_for_user terminate, the queue empty, and in
\* one traversal each vertex is enqueued at most once.
C12_TerminatesEnqueuedOnce ==
    /\ [] EnqueuedOnce
    /\ (pc # "idle") ~> (pc = "idle" /\ Q = << >>)

\* bfs has returned on a graph where the source lies on a cycle through two
\* more vertices, all three enqueued.
C12_Witness ==
    /\ Returned("bfs")
    /\ Len(enqueued) = 3
    /\ \E a \in DOMAIN G._edges : a # s /\ s \in G._edges[a] /\ Dist(G, s, a) = 2


\* The Vertex fields of a freshly built graph.
FreshColor == [v \in Vertex |-> "WHITE"]
FreshD == [v \in Vertex |-> maxsize]
FreshPi == [v \in Vertex |-> None]

\* A traversal is called: what it starts its loop with is what it would start
\* with on a freshly built G.
StartsAsOnFreshGraph ==
    (pc = "idle" /\ pc' = "while") =>
        /\ color' = reset_color(G, s', FreshColor)
        /\ d' = reset_d(G, s', FreshD)
        /\ pi' = reset_pi(G, s', FreshPi)
        /\ Q' = <<s'>>
        /\ vertices_encountered' = << >>
        /\ G' = G

\* C13: whatever earlier traversals left on the vertices, a traversal starts
\* from the state it starts from on a freshly built G, and what it returns
\* (the vertices listed, the distances left) is what that graph alone decides.
C13_IndependentOfEarlierTraversals ==
    /\ [][StartsAsOnFreshGraph]_vars
    /\ [] ((earlier /\ Returned("recommend_friends_for_user")) =>
              Elements(vertices_encountered) =
                  {v \in DOMAIN G._edges :
                       1 <= Dist(G, s, v) /\ Dist(G, s, v) <= max_depth})
    /\ [] ((earlier /\ Returned("bfs")) =>
              \A v \in DOMAIN G._edges : d[v] = Dist(G, s, v))

\* A traversal called after an earlier one has returned vertices, and a key
\* it could not reach is at the infinite distance.
C13_Witness ==
    /\ earlier
    /\ Returned("recommend_friends_for_user")
    /\ vertices_encountered # << >>
    /\ \E w \in DOMAIN G._edges : Dist(G, s, w) = maxsize /\ d[w] = maxsize


\* C14 as stated: during and after recommend_friends_for_user(G, s, max_depth)
\* every vertex has a distance of at most max_depth or the infinite sentinel.
C14_DepthIsHardCeiling ==
    fn = "recommend_friends_for_user" =>
        \A v \in Vertex : d[v] <= max_depth \/ d[v] = maxsize

\* C14, amended: during and after recommend_friends_for_user(G, s, max_depth)
\* every vertex has a distance of at most max_depth + 1 or the infinite
\* sentinel, a finite distance is the BFS distance from s, and only vertices
\* with a distance of at most max_depth are enqueued or listed in the result.
C14_DepthCeilingOnQueueAndResult ==
    fn = "recommend_friends_for_user" =>
        /\ \A v \in Vertex :
              \/ d[v] = maxsize
              \/ d[v] <= max_depth + 1 /\ d[v] = Dist(G, s, v)
        /\ \A i \in 1..Len(enqueued) : d[enqueued[i]] <= max_depth
        /\ \A i \in 1..Len(vertices_encountered) :
              d[vertices_encountered[i]] <= max_depth

\* A returned call that listed a vertex and left a vertex one layer past
\* max_depth with its finite distance.
C14_Witness ==
    /\ Returned("recommend_friends_for_user")
    /\ vertices_encountered # << >>
    /\ \E v \in DOMAIN G._edges :
          /\ d[v] = max_depth + 1
          /\ \A i \in 1..Len(enqueued) : enqueued[i] # v


\* The result list is left alone or gets one vertex at its tail.
ExtendedAtTail ==
    \/ vertices_encountered' = vertices_encountered
    \/ \E x \in Vertex :
          vertices_encountered' = Append(vertices_encountered, x)

\* C15: the list of recommend_friends_for_user is in BFS discovery order: while
\* the call runs the list is extended only at its tail, it holds the vertices
\* in the order they were enqueued (after the source), and it is sorted by
\* non-decreasing distance from the source.
C15_DiscoveryOrder ==
    /\ [][(pc # "idle" /\ fn = "recommend_friends_for_user")
              => ExtendedAtTail]_vars
    /\ [] (fn = "recommend_friends_for_user" =>
              /\ enqueued = <<s>> \o vertices_encountered
              /\ \A i, j \in 1..Len(vertices_encountered) :
                    i < j => Dist(G, s, vertices_encountered[i])
                                 <= Dist(G, s, vertices_encountered[j]))

\* A returned list of three vertices over two layers.
C15_Witness ==
    /\ Returned("recommend_friends_for_user")
    /\ Len(vertices_encountered) = 3
    /\ Dist(G, s, vertices_encountered[2]) = 1
    /\ Dist(G, s, vertices_encountered[3]) = 2


\* The key of g with the id n.
KeyOf(g, n) == CHOOSE k \in DOMAIN g._edges : name(k) = n

\* The number of edges of a shortest path from id a to id b in g.
DistId(g, a, b) ==
    IF HasId(g, a) /\ HasId(g, b) THEN Dist(g, KeyOf(g, a), KeyOf(g, b))
    ELSE maxsize

\* u can reach v within k edges and v -> u is not an edge of g.
Candidate(g, k, a, b) ==
    /\ 1 <= DistId(g, a, b)
    /\ DistId(g, a, b) <= k
    /\ <<b, a>> \notin IdPairs(g)

\* C16: the edge set of recommend_all_friends(G, k) is exactly the pairs
\* (a, b) for which (a, b) or (b, a) is a pair (u, v) with 1 <= dist(u, v) <= k
\* and v -> u not an edge of G, in whatever order the keys and the neighbour
\* sets are iterated.
C16_ExactEdgeSet ==
    AllReturned =>
        IdPairs(friend_graph) =
            {e \in Names \X Names :
                \/ Candidate(G, max_depth, e[1], e[2])
                \/ Candidate(G, max_depth, e[2], e[1])}

\* A returned graph that holds a pair two edges apart and leaves out a pair
\* within reach that the test of the reverse edge keeps out.
C16_Witness ==
    /\ AllReturned
    /\ \E e \in IdPairs(friend_graph) : DistId(G, e[1], e[2]) = 2
    /\ \E a, b \in Names :
          /\ DistId(G, a, b) = 1
          /\ <<a, b>> \notin IdPairs(friend_graph)


\* C19: when G holds both u -> v and v -> u, the graph recommend_all_friends
\* returns holds neither (u, v) nor (v, u), whatever max_depth is.
C19_MutualNotRecommended ==
    AllReturned =>
        \A a, b \in Names :
            (<<a, b>> \in IdPairs(G) /\ <<b, a>> \in IdPairs(G)) =>
                /\ <<a, b>> \notin IdPairs(friend_graph)
                /\ <<b, a>> \notin IdPairs(friend_graph)

\* A returned, non-empty graph for a G with two distinct users connected both
\* ways, one of them recommended to a third.
C19_Witness ==
    /\ AllReturned
    /\ \E a, b, c \in Names :
          /\ a # b
          /\ <<a, b>> \in IdPairs(G)
          /\ <<b, a>> \in IdPairs(G)
          /\ <<a, c>> \in IdPairs(friend_graph)


\* The Vertex objects of a graph: its keys and the members of their sets.
Objects(g) == DOMAIN g._edges \cup UNION {g._edges[k] : k \in DOMAIN g._edges}

\* C18 as stated: traversals of the training graph leave the colour, the
\* distance and the predecessor of every vertex of the testing graph as
\* load_data made them.
C18_TestingVerticesUntouched ==
    \A v \in Objects(G2) :
        /\ color[v] = "WHITE"
        /\ d[v] = maxsize
        /\ pi[v] = None


\* A step leaves the adjacency mapping and the counters of G as they are,
\* and so it does with friend_graph once that graph is returned and passed
\* on.
GraphsUnchanged ==
    /\ G'._edges = G._edges
    /\ count_vertices(G') = count_vertices(G)
    /\ count_edges(G') = count_edges(G)
    /\ pc = "done" =>
          /\ friend_graph'._edges = friend_graph._edges
          /\ count_vertices(friend_graph') = count_vertices(friend_graph)
          /\ count_edges(friend_graph') = count_edges(friend_graph)

\* edge_exists with a vertex1 that is no key answers False and stores no key.
AbsentSourceNotInserted ==
    (metric'.fn = "edge_exists" /\ ~vertex_exists(G, metric'.value[1])) =>
        /\ metric'.value[3] = FALSE
        /\ ~vertex_exists(G', metric'.value[1])

\* C20: bfs, recommend_friends_for_user, recommend_all_friends, precision,
\* recall, edge_set and edge_exists leave the adjacency mapping,
\* count_vertices() and count_edges() of every graph passed to them
\* unchanged, and edge_exists on an absent source returns False without
\* inserting it.
C20_QueriesLeaveGraphs == [][GraphsUnchanged /\ AbsentSourceNotInserted]_vars

\* After traversals that recoloured vertices and a recommend_all_friends
\* that returned edges, edge_exists was asked for a vertex1 that is no key.
C20_Witness ==
    /\ pc = "done"
    /\ edge_set(friend_graph) # {}
    /\ \E v \in DOMAIN G._edges : color[v] = "BLACK" /\ d[v] = 1
    /\ metric.fn = "edge_exists"
    /\ ~vertex_exists(G, metric.value[1])
    /\ metric.value[3] = FALSE

====
